---- MODULE Spec2Model ----
(***************************************************************************)
(* Model of players/mcts/mcts_agent.py: the statistics node UctNode, the   *)
(* search engine MctsAgent.Mcts and the facade MctsAgent.                  *)
(*                                                                         *)
(* A search tree is a function from paths to node records: the root is the *)
(* empty path, the i-th child of the node at path p is p \o <<i>>, and the *)
(* parent of a non-root node is the path without its last index.  A game   *)
(* state object is the sequence of actions played on it so far.            *)
(***************************************************************************)
EXTENDS Integers, Sequences, FiniteSets, TLC

\* ------------------------------------------------------------- bounds
Stones == 3         \* size of the game the driver plays (a subtraction game)
MaxClock == 2       \* clock readings during one call are 0..MaxClock
MaxBudget == 2      \* budgets are drawn from -1..MaxBudget
MaxBackups == 2     \* direct UctNode.backup calls on one tree

\* ---------------------------------------------------------- constants
exploration == 1    \* Mcts.__init__ default, the agent's default too

None == "None"
\* An attribute that was never assigned holds no tree: the function with no
\* node at all (a tree has at least its root, the empty path).
NoAttr == <<>>
HasAttr(t) == DOMAIN t # {}
Budgets == (0 - 1)..MaxBudget
Scores == {0 - 1, 1}
ExpandDepths == {0, 1}  \* depths of the nodes expanded directly
CallerId == 1       \* the game state object the caller owns
CopyId == 2         \* the object deepcopy creates

VARIABLES
    root,                   \* Mcts.root, set by __init__ and reset
    _root,                  \* Mcts._root, set by search, read by good_action
    num_search_iterations,  \* MctsAgent.num_search_iterations
    game,                   \* which game the caller's states belong to
    objs,                   \* the game state objects: id -> actions played
    my_root_state,          \* search's local: the id of its working state
    clock,                  \* time.clock(), from the start of the call
    start_time,             \* search's local
    num_iterations_completed,
    node,                   \* select_node's local: the path of node
    num_actions,            \* select_node's local
    pc,                     \* where the call in progress stands
    call,                   \* the last call made: its arguments, the caller's
                            \* state and the tree before it, the tree when
                            \* its current iteration began
    outcome,                \* how the last call ended
    result,                 \* what the last call returned
    gscalls,                \* game state methods the last call used
    nbackups                \* direct backup calls made on the current tree

vars == <<root, _root, num_search_iterations, game, objs, my_root_state, clock,
          start_time, num_iterations_completed, node, num_actions, pc, call,
          outcome, result, gscalls, nbackups>>

\* ------------------------------------------- the game state collaborator
\* Two games.  The subtraction game: a play takes 1 or 2 of the Stones, the
\* game is over when none is left, and the player who took the last one has
\* won.  The one-ply game: the first player has the actions 1 and 2, each
\* ends the game, 1 wins and 2 loses.  Players are 0 and 1, 0 moves first.
Games == {"subtraction", "oneply"}

RECURSIVE Sum(_)
Sum(h) == IF h = <<>> THEN 0 ELSE Head(h) + Sum(Tail(h))

Remaining(h) == IF game = "oneply"
                THEN (IF h = <<>> THEN 2 ELSE 0)
                ELSE Stones - Sum(h)

\* legal_actions(): the ordered sequence of the moves available
legal_actions(h) ==
    IF Remaining(h) >= 2 THEN <<1, 2>>
    ELSE IF Remaining(h) = 1 THEN <<1>>
    ELSE <<>>

is_terminal(h) == Remaining(h) = 0

play(h, a) == Append(h, a)

Front(s) == SubSeq(s, 1, Len(s) - 1)

undo(h) == Front(h)

\* the player to move after the plays h
to_move(h) == Len(h) % 2

\* score(player) of a terminal state: 1 for the winner, -1 for the loser
winner(h) == IF game = "oneply"
             THEN (IF h = <<1>> THEN 0 ELSE 1)
             ELSE (Len(h) + 1) % 2

score_of(h, player) == IF player = winner(h) THEN 1 ELSE 0 - 1

\* ---------------------------------------------------------------- UctNode
\* UctNode.__init__: the parent is the path's prefix; outcome is never read
NewNode(action) == [action |-> action, N |-> 0, Q |-> 0, nch |-> 0]

\* child_nodes(), as paths
child_nodes(t, p) == {p \o <<i>> : i \in 1..t[p].nch}

is_leaf(t, p) == t[p].nch < 1

is_root(p) == p = <<>>

\* expand run through the legal actions a second time
expand_twice(t, p, acts) ==
    LET k == t[p].nch
        grown == [t EXCEPT ![p].nch = k + 2 * Len(acts)]
        new == [q \in {p \o <<k + i>> : i \in 1..(2 * Len(acts))} |->
                    NewNode((acts \o acts)[q[Len(q)] - k])]
    IN  new @@ grown
\* expand: one child per legal action, appended after the children there are
expand(t, p, acts) ==
    LET k == t[p].nch
        grown == [t EXCEPT ![p].nch = k + Len(acts)]
        new == [q \in {p \o <<k + i>> : i \in 1..Len(acts)} |->
                    NewNode(acts[q[Len(q)] - k])]
    IN  new @@ grown

\* __len__: count starts at 1 and the loop body reads the undefined name
\* current_node, so the call raises NameError on any node with a child
len_raises(t, p) == t[p].nch >= 1

\* __len__ when the loop body is never run
len_value(t, p) == 1 + 0 * t[p].nch

\* Truth test of a node object (`if self.parent:` with a parent that is not
\* None): UctNode defines __len__ and no __bool__/__nonzero__, so Python
\* decides the truth of the object by calling __len__.
truth_raises(t, p) == len_raises(t, p)

truth_value(t, p) == len_value(t, p) # 0

\* backup: the tree afterwards and how the call ended
RECURSIVE backup(_, _, _)
backup(t, p, score) ==
    LET t1 == [t EXCEPT ![p].N = @ + 1, ![p].Q = @ + score]
    IN  IF is_root(p) THEN [tree |-> t1, err |-> "ok"]
        ELSE IF truth_raises(t1, Front(p))
             THEN [tree |-> t1, err |-> "NameError"]
        ELSE IF truth_value(t1, Front(p))
             THEN backup(t1, Front(p), 0 - score)
        ELSE [tree |-> t1, err |-> "ok"]

\* The formula branch of ucb and lcb evaluates log(self.parent.N): a math
\* domain error when the node was visited and its parent has N = 0.
BoundError(t, c) == t[c].N > 0 /\ t[Front(c)].N = 0

\* lcb(0), and so value(0): 0 for an unvisited node, else Q / N.  Kept as a
\* fraction num/den with den > 0.
ValNum(t, c) == IF t[c].N = 0 THEN 0 ELSE t[c].Q
ValDen(t, c) == IF t[c].N = 0 THEN 1 ELSE t[c].N
ValGeq(t, c, d) == ValNum(t, c) * ValDen(t, d) >= ValNum(t, d) * ValDen(t, c)

\* favorite_child(0) raises: max() of no nodes, or a bound that raises
favorite_child_raises(t, p) ==
    \/ child_nodes(t, p) = {}
    \/ \E c \in child_nodes(t, p) : BoundError(t, c)

ValEq(t, c, d) == ValNum(t, c) * ValDen(t, d) = ValNum(t, d) * ValDen(t, c)

\* position of a child among its siblings
child_index(c) == c[Len(c)]

\* max(self.child_nodes(), key=value): Python's max keeps the first of the
\* items whose key is greatest
max_child(t, p) ==
    CHOOSE c \in child_nodes(t, p) :
        /\ \A d \in child_nodes(t, p) : ValGeq(t, c, d)
        /\ \A d \in child_nodes(t, p) :
               child_index(d) < child_index(c) => ~ValGeq(t, d, c)

\* max_nodes: the children whose value equals max_value
max_nodes(t, p) ==
    {n \in child_nodes(t, p) : ValEq(t, n, max_child(t, p))}

\* the first maximal child only, as max() alone would give
favorite_child_first(t, p) == {max_child(t, p)}
\* favorite_child(0): the possible results of random.choice(max_nodes)
favorite_child(t, p) == max_nodes(t, p)

\* ------------------------------------------------------------------- Mcts
\* node_value(n) = n.ucb(exploration) raises for some child
node_value_raises(t, p) == \E c \in child_nodes(t, p) : BoundError(t, c)

\* ucb(exploration) of c is surely below that of its sibling d, both
\* visited.  The bound is Q / N + exploration * sqrt(2 * log(parent.N) / N):
\* the second term is the same for equal N, smaller for greater N, and 0 for
\* every child when parent.N = 1 or exploration = 0.
ucb_below(t, c, d) ==
    LET less == ValNum(t, c) * ValDen(t, d) < ValNum(t, d) * ValDen(t, c)
        leq == ValNum(t, c) * ValDen(t, d) <= ValNum(t, d) * ValDen(t, c)
        flat == t[Front(c)].N = 1 \/ exploration = 0
    IN  \/ less /\ (flat \/ t[c].N >= t[d].N)
        \/ leq /\ ~flat /\ t[c].N > t[d].N

\* the children whose node_value is maximal, the bound of an unvisited
\* child taken as that of a visited one
node_value_max_noinf(t, p) ==
    {c \in child_nodes(t, p) :
        \A d \in child_nodes(t, p) : ~ucb_below(t, c, d)}
\* The children select_node may move to: those whose node_value is maximal.
\* With exploration 0 the bound is Q / N, and 0 for an unvisited child.
\* Otherwise an unvisited child has the bound INF.  Two visited children
\* whose bounds differ by irrational terms that ucb_below cannot order are
\* both kept.
node_value_max(t, p) ==
    IF exploration # 0 /\ \E c \in child_nodes(t, p) : t[c].N = 0
    THEN {c \in child_nodes(t, p) : t[c].N = 0}
    ELSE {c \in child_nodes(t, p) :
             \A d \in child_nodes(t, p) : ~ucb_below(t, c, d)}

\* roll_out(state, player_of_interest): the score returned, the number of
\* plays made, and the state left.  do_after_play(action) plays the action,
\* runs the loop body once and undoes the action.
RECURSIVE roll_out(_, _), roll_out_for(_, _, _, _)
roll_out(state, player_of_interest) ==
    IF is_terminal(state)
    THEN [score |-> score_of(state, player_of_interest), plays |-> 0,
          state |-> state]
    ELSE roll_out_for(state, player_of_interest, legal_actions(state),
                      [score |-> None, plays |-> 0, state |-> state])

\* the rest of the loop `for action in state.legal_actions()`
roll_out_for(state, player_of_interest, actions, acc) ==
    IF actions = <<>> THEN acc
    ELSE LET sub == roll_out(play(state, Head(actions)), player_of_interest)
         IN  roll_out_for(undo(sub.state), player_of_interest,
                          Tail(actions),
                          [score |-> sub.score,
                           plays |-> acc.plays + 1 + sub.plays,
                           state |-> undo(sub.state)])

\* UctNode.expand has no return statement: the call's value is None, which
\* the test of line 221 takes as false
expand_truth == FALSE

\* select_node(node, game_state) with the default time_is_available: the
\* possible ends of the call, with the tree and the game state afterwards
RECURSIVE select_node(_, _, _, _)
select_node(t, n, h, k) ==
    IF ~is_leaf(t, n)
    THEN IF node_value_raises(t, n)
         THEN {[err |-> "ValueError", tree |-> t, node |-> n,
                game_state |-> h, num_actions |-> k]}
         ELSE UNION {LET h1 == play(h, t[c].action)
                     IN  IF t[c].N = 0
                         THEN {[err |-> "ok", tree |-> t, node |-> c,
                                game_state |-> h1, num_actions |-> k + 1]}
                         ELSE select_node(t, c, h1, k + 1) :
                     c \in node_value_max(t, n)}
    ELSE LET t1 == expand(t, n, legal_actions(h))
         IN  IF expand_truth
             THEN {[err |-> "ok", tree |-> t1, node |-> c,
                    game_state |-> play(h, t1[c].action),
                    num_actions |-> k] : c \in child_nodes(t1, n)}
             ELSE {[err |-> "ok", tree |-> t1, node |-> n,
                    game_state |-> h, num_actions |-> k]}

\* the guard with the iteration sentinel off by one
InfiniteSearchCond_sentinel(time_available, num_iterations) ==
    time_available < 0 /\ num_iterations < 0 - 1

\* search, lines 152-154
InfiniteSearchCond(time_available, num_iterations) ==
    time_available < 0 /\ num_iterations < 0

\* no copy is made: my_root_state names the caller's object
deepcopy_alias(id) == id

\* search, line 159: the object my_root_state names
deepcopy(id) == CopyId

\* the comparison with <= for <
time_is_available_le(now, start, time_available) ==
    (now - start) <= time_available

\* time_is_available, lines 166-167
time_is_available(now, start, time_available) ==
    (now - start) < time_available

\* search, line 169
while_cond(completed, num_iterations) == completed < num_iterations

\* the loop without its except clause
on_TimeIsUp_uncaught == "raise"

\* search, lines 175-176: what the loop does with TimeIsUp
on_TimeIsUp == "break"

\* good_action, line 134, after search has returned: how the call can end
good_action_tail(t) ==
    IF ~HasAttr(t) THEN {[outcome |-> "AttributeError", result |-> None]}
    ELSE IF favorite_child_raises(t, <<>>)
         THEN {[outcome |-> "ValueError", result |-> None]}
    ELSE {[outcome |-> "returned", result |-> t[c].action] :
              c \in favorite_child(t, <<>>)}

\* how a call of operation op can end once search has returned None
Finish(op, t) ==
    IF op = "search" THEN {[outcome |-> "returned", result |-> None]}
    ELSE good_action_tail(t)

\* what only search and select_node read and write
locals == <<start_time, num_iterations_completed, node, num_actions,
            my_root_state>>

\* what is fixed once the agent and the game exist
config == <<num_search_iterations, game>>

NoCall == [op |-> "none", time_available |-> 0, num_iterations |-> 0,
           pre_state |-> <<>>, pre_root |-> NoAttr, terminal |-> FALSE,
           timeup |-> FALSE, iter_root |-> NoAttr, arg |-> <<>>,
           score |-> 0, may_return |-> {}, player |-> 0, plays |-> 0]

SearchOps == {"search", "good_action", "select_action"}

\* an engine and an agent as constructed, and the caller's fresh game state
Init ==
    /\ root = None
    /\ _root = NoAttr
    /\ num_search_iterations \in Budgets
    /\ game \in Games
    /\ objs = [i \in {CallerId, CopyId} |-> <<>>]
    /\ my_root_state = CopyId
    /\ clock = 0
    /\ start_time = 0
    /\ num_iterations_completed = 0
    /\ node = <<>>
    /\ num_actions = 0
    /\ pc = "idle"
    /\ call = NoCall
    /\ outcome = "none"
    /\ result = None
    /\ gscalls = {}
    /\ nbackups = 0

\* ------------------------------------------------------------ the caller
\* the caller plays a move on its own game state between calls
ClientPlay ==
    /\ pc = "idle"
    /\ \E i \in 1..Len(legal_actions(objs[CallerId])) :
           objs' = [objs EXCEPT
                        ![CallerId] = play(@, legal_actions(@)[i])]
    /\ call' = [NoCall EXCEPT !.op = "play"]
    /\ outcome' = "returned"
    /\ result' = None
    /\ clock' = 0
    /\ gscalls' = {}
    /\ UNCHANGED <<root, _root, config, pc, nbackups, locals>>

ClientUndo ==
    /\ pc = "idle"
    /\ objs[CallerId] # <<>>
    /\ objs' = [objs EXCEPT ![CallerId] = undo(@)]
    /\ call' = [NoCall EXCEPT !.op = "undo"]
    /\ outcome' = "returned"
    /\ result' = None
    /\ clock' = 0
    /\ gscalls' = {}
    /\ UNCHANGED <<root, _root, config, pc, nbackups, locals>>

\* the clock advances while a call is in progress
Tick ==
    /\ pc # "idle"
    /\ clock < MaxClock
    /\ clock' = clock + 1
    /\ UNCHANGED <<root, _root, config, objs, pc, call,
                   outcome, result, gscalls, nbackups, locals>>

\* ----------------------------------------------------------------- search
\* Entry of search(root_state, time_available, num_iterations), lines
\* 152-164, reached directly (op = "search"), through good_action or
\* through the agent's select_action.
SearchEntry(op, time_available, num_iterations) ==
    LET here == objs[CallerId]
        c == [NoCall EXCEPT !.op = op,
                            !.time_available = time_available,
                            !.num_iterations = num_iterations,
                            !.pre_state = here,
                            !.pre_root = _root,
                            !.terminal = is_terminal(here)]
    IN
    /\ pc = "idle"
    /\ call' = c
    /\ clock' = 0
    /\ IF InfiniteSearchCond(time_available, num_iterations)
       THEN /\ outcome' = "InfiniteSearch"
            /\ result' = None
            /\ gscalls' = {}
            /\ UNCHANGED <<root, _root, config, objs, pc,
                           nbackups, locals>>
       ELSE IF is_terminal(here)
       THEN /\ \E r \in Finish(op, _root) :
                   outcome' = r.outcome /\ result' = r.result
            /\ gscalls' = {"is_terminal"}
            /\ UNCHANGED <<root, _root, config, objs, pc,
                           nbackups, locals>>
       ELSE /\ start_time' = 0
            /\ my_root_state' = deepcopy(CallerId)
            /\ objs' = [objs EXCEPT ![deepcopy(CallerId)] = here]
            /\ _root' = expand((<<>> :> NewNode(None)), <<>>,
                               legal_actions(here))
            /\ num_iterations_completed' = 0
            /\ nbackups' = 0
            /\ gscalls' = {"is_terminal", "deepcopy", "legal_actions"}
            /\ pc' = "loop"
            /\ outcome' = "running"
            /\ result' = None
            /\ UNCHANGED <<root, config, node, num_actions>>

search == \E ta \in Budgets, ni \in Budgets : SearchEntry("search", ta, ni)

good_action ==
    \E ta \in Budgets, ni \in Budgets : SearchEntry("good_action", ta, ni)

\* MctsAgent.select_action: good_action with the configured iterations
select_action ==
    \E ta \in Budgets :
        SearchEntry("select_action", ta, num_search_iterations)

\* the frame of search is left: its locals and its working copy are gone
Leave ==
    /\ pc' = "idle"
    /\ node' = <<>>
    /\ num_actions' = 0
    /\ my_root_state' = CopyId
    /\ objs' = [objs EXCEPT ![CopyId] = <<>>]
    /\ UNCHANGED <<start_time, num_iterations_completed>>

\* the call ends: search returns None, good_action goes on to line 134
Return(timeup) ==
    /\ \E r \in Finish(call.op, _root) :
           outcome' = r.outcome /\ result' = r.result
    /\ call' = [call EXCEPT !.timeup = timeup]
    /\ Leave

\* the call ends with exception exc
Raise(exc, timeup) ==
    /\ outcome' = exc
    /\ result' = None
    /\ call' = [call EXCEPT !.timeup = timeup]
    /\ Leave

\* line 169: the loop test, and lines 194-195 when it passes
WhileTest ==
    /\ pc = "loop"
    /\ IF while_cond(num_iterations_completed, call.num_iterations)
       THEN /\ pc' = "select"
            /\ node' = <<>>
            /\ num_actions' = 0
            /\ call' = [call EXCEPT !.iter_root = _root]
            /\ UNCHANGED <<outcome, result, objs, my_root_state,
                           start_time, num_iterations_completed>>
       ELSE Return(FALSE)
    /\ UNCHANGED <<root, _root, config, clock, gscalls,
                   nbackups>>

\* one pass of select_node's loop, lines 196-217, or its exit, lines 221-224
SelectStep ==
    /\ pc = "select"
    /\ IF is_leaf(_root, node)
       THEN \* expand returns None, so lines 222-223 are not run
            /\ _root' = expand(_root, node,
                               legal_actions(objs[my_root_state]))
            /\ pc' = "rollout"
            /\ gscalls' = gscalls
            /\ UNCHANGED <<objs, node, num_actions, call, outcome, result,
                           my_root_state, start_time,
                           num_iterations_completed>>
       ELSE IF ~time_is_available(clock, start_time, call.time_available)
       THEN \* TimeIsUp is raised
            /\ IF on_TimeIsUp = "break"
               THEN Return(TRUE)
               ELSE Raise("TimeIsUp", TRUE)
            /\ gscalls' = gscalls
            /\ UNCHANGED _root
       ELSE IF node_value_raises(_root, node)
       THEN /\ Raise("ValueError", FALSE)
            /\ gscalls' = gscalls
            /\ UNCHANGED _root
       ELSE \E c \in node_value_max(_root, node) :
            /\ node' = c
            /\ objs' = [objs EXCEPT
                            ![my_root_state] = play(@, _root[c].action)]
            /\ num_actions' = num_actions + 1
            /\ pc' = IF _root[c].N = 0 THEN "rollout" ELSE "select"
            /\ gscalls' = IF my_root_state = CallerId
                          THEN gscalls \cup {"play"} ELSE gscalls
            /\ UNCHANGED <<_root, call, outcome, result, my_root_state,
                           start_time, num_iterations_completed>>
    /\ UNCHANGED <<root, config, clock, nbackups>>

\* line 177: self.roll_out(game_state) is evaluated first; roll_out takes
\* (state, player_of_interest) and is given one argument: TypeError.  The
\* backup, the undos of lines 178-179 and the count of line 180 are not run.
RollOutCall ==
    /\ pc = "rollout"
    /\ Raise("TypeError", FALSE)
    /\ UNCHANGED <<root, _root, config, clock, gscalls,
                   nbackups>>

\* ------------------------------------------------------------------ reset
ResetAs(op) ==
    /\ pc = "idle"
    /\ root' = None
    /\ call' = [NoCall EXCEPT !.op = op, !.pre_root = _root]
    /\ outcome' = "returned"
    /\ result' = None
    /\ clock' = 0
    /\ gscalls' = {}
    /\ UNCHANGED <<_root, config, objs, nbackups, pc, locals>>

\* Mcts.reset
reset == ResetAs("reset")

\* MctsAgent.reset
agent_reset == ResetAs("agent_reset")

Next ==
    \/ ClientPlay
    \/ ClientUndo
    \/ Tick
    \/ search
    \/ good_action
    \/ select_action
    \/ WhileTest
    \/ SelectStep
    \/ RollOutCall
    \/ reset
    \/ agent_reset

Spec == Init /\ [][Next]_vars

\* ------------------------------------------- UctNode called on its own
\* A tree of UctNode objects built and updated through the node's own
\* methods: UctNode() as the root, expand with a game state, backup.
InitNode ==
    /\ root = None
    /\ _root = (<<>> :> NewNode(None))
    /\ num_search_iterations = 0 - 1
    /\ game = "subtraction"
    /\ objs = [i \in {CallerId, CopyId} |-> <<>>]
    /\ my_root_state = CopyId
    /\ clock = 0
    /\ start_time = 0
    /\ num_iterations_completed = 0
    /\ node = <<>>
    /\ num_actions = 0
    /\ pc = "idle"
    /\ call = NoCall
    /\ outcome = "none"
    /\ result = None
    /\ gscalls = {}
    /\ nbackups = 0

\* expand called on a leaf with the caller's game state
NodeExpand ==
    /\ \E p \in DOMAIN _root :
        /\ is_leaf(_root, p)
        /\ Len(p) \in ExpandDepths
        /\ legal_actions(objs[CallerId]) # <<>>
        /\ _root' = expand(_root, p, legal_actions(objs[CallerId]))
        /\ call' = [NoCall EXCEPT !.op = "expand", !.arg = p]
    /\ outcome' = "returned"
    /\ result' = None
    /\ UNCHANGED <<root, config, objs, clock, gscalls,
                   nbackups, pc, locals>>

\* backup(score) called on a node
NodeBackup ==
    /\ nbackups < MaxBackups
    /\ \E p \in DOMAIN _root, s \in Scores :
        /\ _root' = backup(_root, p, s).tree
        /\ outcome' = IF backup(_root, p, s).err = "ok"
                      THEN "returned" ELSE backup(_root, p, s).err
        /\ call' = [NoCall EXCEPT !.op = "backup", !.arg = p, !.score = s]
    /\ nbackups' = nbackups + 1
    /\ result' = None
    /\ UNCHANGED <<root, config, objs, clock, gscalls, pc,
                   locals>>

\* favorite_child() called on a node; result is the node returned
NodeFavoriteChild ==
    /\ \E p \in DOMAIN _root :
        IF favorite_child_raises(_root, p)
        THEN /\ call' = [NoCall EXCEPT !.op = "favorite_child", !.arg = p]
             /\ outcome' = "ValueError"
             /\ result' = None
        ELSE /\ call' = [NoCall EXCEPT !.op = "favorite_child", !.arg = p,
                                       !.may_return = favorite_child(_root, p)]
             /\ outcome' = "returned"
             /\ result' \in favorite_child(_root, p)
    /\ UNCHANGED <<root, _root, config, objs, clock, gscalls, nbackups, pc,
                   locals>>

\* roll_out called with a game state and a player
RollOut ==
    /\ \E player \in {0, 1} :
        LET r == roll_out(objs[CallerId], player)
        IN  /\ objs' = [objs EXCEPT ![CallerId] = r.state]
            /\ result' = r.score
            /\ call' = [NoCall EXCEPT !.op = "roll_out",
                                      !.pre_state = objs[CallerId],
                                      !.player = player,
                                      !.plays = r.plays]
    /\ outcome' = "returned"
    /\ UNCHANGED <<root, _root, config, clock, gscalls, nbackups, pc,
                   locals>>

NextNode ==
    \/ RollOut
    \/ ClientPlay
    \/ ClientUndo
    \/ NodeExpand
    \/ NodeBackup
    \/ NodeFavoriteChild

SpecNode == InitNode /\ [][NextNode]_vars

\* ---------------------------------------------------- select_node, directly
\* select_node called on a tree that starts as a lone root, with backups
\* called on the nodes in between; the caller takes moves back
\* the game state a node stands for in a tree rooted at the first position:
\* the actions on the way from the root to the node
StateOf(t, p) == [i \in 1..Len(p) |-> t[SubSeq(p, 1, i)].action]

\* select_node called on a node with the game state the node stands for;
\* result is the tuple returned, the game state given by its plays
NodeSelect ==
    /\ \E p \in DOMAIN _root :
        /\ objs[CallerId] = StateOf(_root, p)
        /\ \E r \in select_node(_root, p, objs[CallerId], 0) :
            /\ _root' = r.tree
            /\ objs' = [objs EXCEPT ![CallerId] = r.game_state]
            /\ outcome' = IF r.err = "ok" THEN "returned" ELSE r.err
            /\ result' = IF r.err = "ok"
                         THEN <<r.node, r.game_state, r.num_actions>>
                         ELSE None
        /\ call' = [NoCall EXCEPT !.op = "select_node", !.arg = p]
    /\ UNCHANGED <<root, config, clock, gscalls, nbackups, pc, locals>>

InitSelect ==
    /\ InitNode

NextSelect ==
    \/ NodeSelect
    \/ NodeBackup
    \/ ClientUndo

SpecSelect == InitSelect /\ [][NextSelect]_vars

\* ================================================================ claims
\* a call of search, good_action or select_action has ended
Ended == call.op \in SearchOps /\ pc = "idle"

BothNegative == call.time_available < 0 /\ call.num_iterations < 0

\* the tree search builds before its loop: a root and one unvisited,
\* childless child per legal action of the state, in order
FreshTree(t, h) ==
    /\ HasAttr(t)
    /\ DOMAIN t = {<<>>} \cup {<<i>> : i \in 1..Len(legal_actions(h))}
    /\ t[<<>>] = [action |-> None, N |-> 0, Q |-> 0,
                  nch |-> Len(legal_actions(h))]
    /\ \A i \in 1..Len(legal_actions(h)) :
           t[<<i>>] = [action |-> legal_actions(h)[i], N |-> 0, Q |-> 0,
                       nch |-> 0]

\* C1: a call with time_available < 0 and num_iterations < 0 ends at once
\* with InfiniteSearch: it uses no game state method, builds no tree and
\* leaves the stored tree and the caller's state as they were.
C1_InfiniteSearchImmediate ==
    (call.op \in SearchOps /\ BothNegative) =>
        /\ pc = "idle"
        /\ outcome = "InfiniteSearch"
        /\ gscalls = {}
        /\ _root = call.pre_root
        /\ objs[CallerId] = call.pre_state

\* C1 witness: select_action with both budgets negative was refused while
\* the engine held the tree of an earlier search
C1_Witness ==
    /\ call.op = "select_action"
    /\ BothNegative
    /\ outcome = "InfiniteSearch"
    /\ HasAttr(_root)

\* C2: search on a non-terminal state with time_available < 0 and
\* num_iterations = k >= 0 returns with exactly k iterations completed and
\* the root's N equal to k.
C2_NegativeTimeIsNoLimit ==
    (/\ Ended
     /\ call.op = "search"
     /\ ~call.terminal
     /\ call.time_available < 0
     /\ call.num_iterations >= 0) =>
        /\ outcome = "returned"
        /\ num_iterations_completed = call.num_iterations
        /\ _root[<<>>].N = call.num_iterations

\* C3: search on a non-terminal state with num_iterations < 0 and
\* time_available > 0 that ends with the clock still below the budget (so
\* the clock was below it at every selection step) has completed at least
\* one iteration.
C3_NegativeIterationsIsNoLimit ==
    (/\ Ended
     /\ ~call.terminal
     /\ call.num_iterations < 0
     /\ call.time_available > 0
     /\ clock - start_time < call.time_available) =>
        num_iterations_completed >= 1

\* C4: with a budget of 0 (the two not both negative) a call on a
\* non-terminal state returns normally with zero iterations completed and
\* the tree is the root plus one child per legal action, every N and Q is 0
\* and no child has children.
C4_ZeroBudget ==
    (/\ Ended
     /\ ~call.terminal
     /\ ~BothNegative
     /\ (call.time_available = 0 \/ call.num_iterations = 0)) =>
        /\ outcome = "returned"
        /\ num_iterations_completed = 0
        /\ FreshTree(_root, call.pre_state)

\* C4 witness: search with time budget 0 and an iteration budget of 1 has
\* returned, stopped by the clock at its first selection step
C4_Witness ==
    /\ Ended
    /\ call.op = "search"
    /\ call.time_available = 0
    /\ call.num_iterations = 1
    /\ call.timeup
    /\ outcome = "returned"

\* C5: good_action (or select_action) on a terminal state with valid
\* budgets returns normally and returns no action.
C5_TerminalRootNoAction ==
    (/\ Ended
     /\ call.op \in {"good_action", "select_action"}
     /\ call.terminal
     /\ ~BothNegative) =>
        /\ outcome = "returned"
        /\ result = None

\* C6: after reset, on the engine or through the agent, the tree root that
\* search builds and good_action reads is absent.
C6_ResetDiscardsTree ==
    call.op \in {"reset", "agent_reset"} => ~HasAttr(_root)

\* C7: backup(s) at a grandchild of the root adds s to the Q of its parent
\* (the child) and -s to the Q of the root.
C7_TwoPlyBackup ==
    [][(/\ nbackups' = nbackups + 1
        /\ Len(call'.arg) = 2) =>
           /\ _root'[Front(call'.arg)].Q
                  = _root[Front(call'.arg)].Q + call'.score
           /\ _root'[<<>>].Q = _root[<<>>].Q - call'.score]_vars

RECURSIVE SumN(_, _)
SumN(t, ps) ==
    IF ps = {} THEN 0
    ELSE LET q == CHOOSE q \in ps : TRUE IN t[q].N + SumN(t, ps \ {q})

\* C8: visit counts are conserved between the backups that end the
\* iterations: the root's N is the number of backups made, every node's N
\* is at least the sum of its children's N (the rest being the backups that
\* began at the node), and no node has a larger N than its parent.
C8_VisitConservation ==
    /\ _root[<<>>].N = nbackups
    /\ \A p \in DOMAIN _root :
        /\ _root[p].N >= SumN(_root, child_nodes(_root, p))
        /\ p # <<>> => _root[p].N <= _root[Front(p)].N

\* C9: from the entry of a call to its end, however it ends, the caller's
\* game state object is what it was before the call, and neither play nor
\* undo is called on it.
C9_CallerStateUntouched ==
    call.op \in SearchOps =>
        /\ objs[CallerId] = call.pre_state
        /\ gscalls \cap {"play", "undo"} = {}

\* C9 witness: a call ended during an iteration, after select_node had
\* played a move on the working state and before any undo
C9_Witness ==
    /\ Ended
    /\ ~call.terminal
    /\ outcome = "TypeError"

\* C10: when the time is up at a selection step the call has ended: the
\* tree is what it was when the iteration began, TimeIsUp is not surfaced,
\* and search returns normally.
C10_TimeUpAbortsQuietly ==
    call.timeup =>
        /\ pc = "idle"
        /\ _root = call.iter_root
        /\ outcome # "TimeIsUp"
        /\ call.op = "search" => (outcome = "returned" /\ result = None)

\* C10 witness: a search with a positive time budget that the clock
\* overtook before the first selection step
C10_Witness ==
    /\ Ended
    /\ call.op = "search"
    /\ call.timeup
    /\ call.time_available > 0
    /\ outcome = "returned"

\* C11: in the one-ply game (action 1 wins, action 2 loses for the player to
\* move) good_action with an iteration budget of at least 2 that the time
\* budget does not cut short (no time limit, or the time never ran out)
\* completes its iterations and returns the winning action 1.
C11_OnePlyPicksWinner ==
    (/\ Ended
     /\ call.op \in {"good_action", "select_action"}
     /\ game = "oneply"
     /\ call.pre_state = <<>>
     /\ call.num_iterations >= 2
     /\ (call.time_available < 0 \/ ~call.timeup)) =>
        /\ outcome = "returned"
        /\ result = 1

\* the children of p no sibling of which has a greater value(0)
Maximizers(t, p) ==
    {c \in child_nodes(t, p) :
        \A d \in child_nodes(t, p) :
            ValNum(t, c) * ValDen(t, d) >= ValNum(t, d) * ValDen(t, c)}

C13_IterationRestoresState ==
    [][pc = "rollout" =>
          /\ pc' = "loop"
          /\ num_iterations_completed' = num_iterations_completed + 1
          /\ objs'[my_root_state'] = call.pre_state]_vars

\* C14: when a call of select_node expands a childless node into children
\* (the node's state is not terminal), the node it returns is one of the
\* new children and that child's action has been applied to the game state.
C14_ExpansionDescends ==
    [][(call'.op = "select_node" /\ outcome' = "returned"
        /\ _root' # _root) =>
          \E q \in DOMAIN _root :
              /\ _root[q].nch = 0
              /\ result'[1] \in child_nodes(_root', q)
              /\ objs'[CallerId] = StateOf(_root', result'[1])]_vars

\* the subtree of p holds, under every expanded node, one child per legal
\* action of the node's state, in order, when the state at p is h
RECURSIVE TreeFits(_, _, _)
TreeFits(t, p, h) ==
    \/ t[p].nch = 0
    \/ /\ t[p].nch = Len(legal_actions(h))
       /\ \A i \in 1..t[p].nch :
            /\ t[p \o <<i>>].action = legal_actions(h)[i]
            /\ TreeFits(t, p \o <<i>>, play(h, legal_actions(h)[i]))

\* the game states a tree can have been built for
Histories == UNION {[1..n -> {1, 2}] : n \in 0..Stones}

\* C15: every node of the stored tree has no children or exactly one child
\* per legal action of its state at expansion time, in order and without
\* duplicates; in a call that builds a tree the root's state is the state
\* the call was given, so no node has been expanded a second time.
C15_ExpandOncePerNode ==
    /\ HasAttr(_root) =>
           /\ \E h \in Histories : TreeFits(_root, <<>>, h)
           /\ \A q \in DOMAIN _root :
                  \A c, d \in child_nodes(_root, q) :
                      _root[c].action = _root[d].action => c = d
    /\ (/\ call.op \in SearchOps
        /\ outcome \notin {"none", "InfiniteSearch"}
        /\ ~call.terminal) =>
           TreeFits(_root, <<>>, call.pre_state)

\* C15 witness: a search has expanded the root into two children and its
\* selection has moved into one of them
C15_Witness ==
    /\ pc = "rollout"
    /\ _root[<<>>].nch = 2
    /\ Len(node) = 1
    /\ _root[node].nch = 0

C17_BoundPrecondition ==
    call.op = "select_node" => outcome # "ValueError"

\* C18: a roll-out follows one playout path: the number of plays it makes
\* is the length of one legal path from its state to a terminal state, and
\* the score it returns is the terminal score of that path.
C18_SinglePlayoutPath ==
    call.op = "roll_out" =>
        \E path \in Histories :
            /\ Len(path) = Len(call.pre_state) + call.plays
            /\ SubSeq(path, 1, Len(call.pre_state)) = call.pre_state
            /\ is_terminal(path)
            /\ result = score_of(path, call.player)

\* C19: backup(s) on a node adds 1 to N of the node and of each of its
\* ancestors, adds s to Q of the node and of the ancestors an even number
\* of levels above it and -s to Q of those an odd number of levels above,
\* and leaves every other node as it was.
C19_BackupPath ==
    [][(nbackups' = nbackups + 1 /\ call'.op = "backup") =>
          \A q \in DOMAIN _root :
              IF Len(q) <= Len(call'.arg)
                 /\ q = SubSeq(call'.arg, 1, Len(q))
              THEN /\ _root'[q].N = _root[q].N + 1
                   /\ _root'[q].Q = _root[q].Q +
                          (IF (Len(call'.arg) - Len(q)) % 2 = 0
                           THEN call'.score ELSE 0 - call'.score)
              ELSE _root'[q] = _root[q]]_vars

\* C20: a call of search with num_iterations >= 0 on a state of a finite
\* game, whatever the time budget, comes to its end by returning.
C20_SearchReturns ==
    (/\ Ended
     /\ call.op = "search"
     /\ call.num_iterations >= 0) =>
        outcome = "returned"

====
